---- MODULE Spec2Model ----
(***************************************************************************)
(* The AILinux WebSocket server (the Python module embedded in             *)
(* src/start.js, lines 86-622): connection handlers, the rate limiter, the *)
(* analysis tasks bounded by a semaphore, and the periodic cleanup.        *)
(*                                                                         *)
(* asyncio runs one task at a time and switches tasks only at an await, so *)
(* every action below is the code between two suspension points.           *)
(*                                                                         *)
(* Time.  The code stores time.time() stamps and only ever compares        *)
(* "now - stamp" with a threshold.  The model stores that difference (the  *)
(* age of the stamp) and lets Tick age every stamp by one unit; an age     *)
(* stops growing one past the largest threshold it is compared with.  The  *)
(* thresholds are scaled to small numbers that keep the order of the       *)
(* code's numbers (1.0 s < 300 s < 3600 s).                                *)
(***************************************************************************)
EXTENDS Integers, FiniteSets, Sequences, TLC

\* ------------------------------------------------------------------ bounds
NumConns == 1          \* connections the server accepts in a run
MaxJobs  == 2          \* analysis requests acknowledged in a run

\* ------------------------------------------- program constants (scaled)
RATE_LIMIT_INTERVAL     == 1   \* WS_RATE_LIMIT, 1.0 s
MAX_MESSAGE_SIZE        == 2   \* WS_MAX_MESSAGE_SIZE, 1048576
MAX_CONCURRENT_ANALYSES == 1   \* WS_MAX_CONCURRENT_ANALYSES, 4
SESSION_KEEP            == 1   \* asyncio.sleep(300) in process_log_analysis
CLIENT_INACTIVE         == 2   \* 3600 s without activity
SESSION_OLD             == 2   \* 3600 s since start_time
HEARTBEAT_IDLE          == 1   \* 30 s without activity
HEARTBEAT_PERIOD        == 1   \* asyncio.sleep(30) in heartbeat_sender

Conns == 1..NumConns           \* a connection; its uuid4 client_id is its number
Jobs  == 1..MaxJobs            \* request ids, in the order uuid4 hands them out
NoTime == 0 - 1                \* no stamp yet

Min(a, b) == IF a < b THEN a ELSE b
Max(a, b) == IF a > b THEN a ELSE b

\* dict helpers: del d[k] and d[k] = v
Remove(d, k) == [x \in DOMAIN d \ {k} |-> d[x]]
Put(d, k, v) == [x \in DOMAIN d \cup {k} |-> IF x = k THEN v ELSE d[x]]

VARIABLES
  API_KEY,             \* WEBSOCKET_API_KEY: "" when no secret is configured
  connected_clients,   \* client_id -> [since_activity]
  client_rate_limits,  \* client_id -> age of the stored stamp
  active_sessions,     \* request_id -> [client_id, since_start, status]
  analysis_semaphore,  \* value of the asyncio.Semaphore
  hpc,                 \* connection_handler's position: none, auth, loop, done
  open,                \* the transport of the connection is still open
  client_id,           \* connection_handler's local client_id (0 is None)
  jpc,                 \* process_log_analysis's position for a request id
  jws,                 \* the websocket (connection) a live task was created with
  model_name,          \* the model name a live task was created with
  analysis_result,     \* what the inference engine returned to a task, until it is sent
  heartbeat_sleep,     \* what is left of heartbeat_sender's asyncio.sleep(30)
  sleep_left,          \* what is left of the task's asyncio.sleep(300)
  sent,                \* the message the last step sent, and to whom (NoMsg: none)
  pushed,              \* message types sent so far for the request of a live task
  since_accept,        \* time since the rate limiter last let a message through
  handshake            \* what the connection's first message was

vars == <<API_KEY, connected_clients, client_rate_limits, active_sessions,
          analysis_semaphore, hpc, open, client_id, jpc, jws,
          model_name, analysis_result, heartbeat_sleep, sleep_left, sent, pushed, since_accept, handshake>>

\* ---------------------------------------------------------------- messages
Sizes == {MAX_MESSAGE_SIZE, MAX_MESSAGE_SIZE + 1}

\* "model" is what message_data.get("model", "gpt4all") gives, line 230
InMsg(j, t, k, l, n) ==
  [json |-> j, type |-> t, auth_key |-> k, log |-> l, len |-> n, model |-> "gpt4all"]

\* first messages: not JSON, JSON that is no object, an object with or
\* without an auth_key
AuthMessages ==
  {InMsg(j, "authentication", "", "", n) : j \in {"invalid", "nonobj"}, n \in Sizes}
  \cup {InMsg("object", "authentication", k, "", n) : k \in {"", "key", "bad"}, n \in Sizes}

LoopMessages ==
  {InMsg(j, "", "", "", n) : j \in {"invalid", "nonobj"}, n \in Sizes}
  \cup {InMsg("object", t, "", "", n) :
          t \in {"ping", "get_models", "server_status", "bogus"}, n \in Sizes}
  \cup {InMsg("object", "analyze_log", "", l, n) : l \in {"", "log"}, n \in Sizes}

OutMsg(t, c, r) == [to |-> 0, type |-> t, code |-> c, rid |-> r]
NoMsg == OutMsg("none", 0, 0)
Error(c) == OutMsg("error", c, 0)
\* an error of the read loop with its "message" text
ErrorText(c, t) == [to |-> 0, type |-> "error", code |-> c, rid |-> 0, message |-> t]

\* faulty variant: the id of a finished request is handed out again
NextRequestId_reused == Cardinality({r \in Jobs : jpc[r] \notin {"none", "done"}}) + 1

\* uuid4 for a request: an id no earlier request has
NextRequestId == Cardinality({r \in Jobs : jpc[r] # "none"}) + 1

\* ------------------------------------------------------------------- Init
Init ==
  /\ API_KEY \in {"", "key"}
  /\ connected_clients = << >>
  /\ client_rate_limits = << >>
  /\ active_sessions = << >>
  /\ analysis_semaphore = MAX_CONCURRENT_ANALYSES
  /\ hpc = [c \in Conns |-> "none"]
  /\ open = [c \in Conns |-> TRUE]
  /\ client_id = [c \in Conns |-> 0]
  /\ jpc = [r \in Jobs |-> "none"]
  /\ jws = [r \in Jobs |-> 0]
  /\ model_name = [r \in Jobs |-> ""]
  /\ analysis_result = [r \in Jobs |-> ""]
  /\ heartbeat_sleep = 0
  /\ sleep_left = [r \in Jobs |-> 0]
  /\ sent = NoMsg
  /\ pushed = [r \in Jobs |-> {}]
  /\ since_accept = [c \in Conns |-> NoTime]
  /\ handshake = [c \in Conns |-> "pending"]

\* ------------------------------------------------------------ environment
\* a client connects: websockets starts connection_handler for it
connect(c) ==
  /\ hpc[c] = "none"
  /\ hpc' = [hpc EXCEPT ![c] = "auth"]
  /\ sent' = NoMsg
  /\ UNCHANGED <<API_KEY, heartbeat_sleep, connected_clients, client_rate_limits, active_sessions,
                 analysis_semaphore, open, client_id, jpc, jws, model_name, analysis_result, sleep_left,
                 pushed, since_accept, handshake>>

\* the peer goes away (cleanly or not): from now on send raises ConnectionClosed
peer_close(c) ==
  /\ hpc[c] \in {"auth", "loop"}
  /\ open[c]
  /\ open' = [open EXCEPT ![c] = FALSE]
  /\ sent' = NoMsg
  /\ UNCHANGED <<API_KEY, heartbeat_sleep, connected_clients, client_rate_limits, active_sessions,
                 analysis_semaphore, hpc, client_id, jpc, jws, model_name, analysis_result, sleep_left,
                 pushed, since_accept, handshake>>

\* await websocket.send(msg): the message goes out on an open connection
Send(c, msg) == IF open[c] THEN [msg EXCEPT !.to = c] ELSE NoMsg

\* the log of what was sent for each request id
Push(msg) ==
  IF msg.rid \in Jobs THEN [pushed EXCEPT ![msg.rid] = @ \cup {msg.type}] ELSE pushed

\* the handler returns (or raises): websockets closes the connection
Ended(c) == /\ hpc' = [hpc EXCEPT ![c] = "done"]
            /\ open' = [open EXCEPT ![c] = FALSE]

\* what the first message is, to the handshake
Verdict(m) ==
  IF m.json # "object" THEN "malformed"
  ELSE IF API_KEY # "" /\ m.auth_key # API_KEY THEN "unauthorized"
  ELSE "passed"

\* ------------------------------------------------------ connection_handler
\* faulty variant: only a missing key is refused
KeyRefused_missing(m) == API_KEY # "" /\ m.auth_key = ""

\* the API key check, lines 168-170
KeyRefused(m) == API_KEY # "" /\ m.auth_key # API_KEY

\* authenticate_client, lines 153-202, and what connection_handler does with
\* its result (lines 389-391) or with the exception its send raises: the
\* assignment to client_id at line 389 is then never made, and the finally
\* block at 463-470 skips its cleanup.
authenticate_client(c, m) ==
  IF KeyRefused(m)
  THEN /\ sent' = Send(c, Error(401))
       /\ Ended(c)
       /\ UNCHANGED <<connected_clients, client_id>>
  ELSE /\ connected_clients' = Put(connected_clients, c, [since_activity |-> 0])
       /\ sent' = Send(c, OutMsg("authentication", 0, 0))
       /\ IF open[c]
          THEN /\ client_id' = [client_id EXCEPT ![c] = c]
               /\ hpc' = [hpc EXCEPT ![c] = "loop"]
               /\ UNCHANGED open
          ELSE /\ Ended(c)
               /\ UNCHANGED client_id

\* the first message arrives, lines 383-408
connection_handler_auth(c, m) ==
  /\ hpc[c] = "auth"
  /\ m.len <= MAX_MESSAGE_SIZE          \* the transport hands over no larger frame
  /\ handshake' = [handshake EXCEPT ![c] = Verdict(m)]
  /\ IF m.json = "invalid"              \* json.JSONDecodeError, lines 401-408
     THEN /\ sent' = Send(c, Error(400))
          /\ Ended(c)
          /\ UNCHANGED <<connected_clients, client_id>>
     ELSE IF m.json = "nonobj"          \* message_data.get raises AttributeError
     THEN /\ sent' = NoMsg
          /\ Ended(c)
          /\ UNCHANGED <<connected_clients, client_id>>
     ELSE authenticate_client(c, m)
  /\ UNCHANGED <<API_KEY, heartbeat_sleep, client_rate_limits, active_sessions, analysis_semaphore,
                 jpc, jws, model_name, analysis_result, sleep_left, pushed, since_accept>>

\* asyncio.wait_for gives up after 10 s, lines 393-400
connection_handler_timeout(c) ==
  /\ hpc[c] = "auth"
  /\ open[c]
  /\ handshake' = [handshake EXCEPT ![c] = "timeout"]
  /\ sent' = Send(c, Error(408))
  /\ Ended(c)
  /\ UNCHANGED <<API_KEY, heartbeat_sleep, connected_clients, client_rate_limits, active_sessions,
                 analysis_semaphore, client_id, jpc, jws, model_name, analysis_result, sleep_left, pushed,
                 since_accept>>

\* the finally block, lines 463-470, on the dict d
Finally(c, d) == IF client_id[c] # 0 THEN Remove(d, client_id[c]) ELSE d

\* recv or the async for finds the connection closed, lines 459-470
connection_handler_closed(c) ==
  /\ hpc[c] \in {"auth", "loop"}
  /\ ~open[c]
  /\ Ended(c)
  /\ connected_clients' = Finally(c, connected_clients)
  /\ client_rate_limits' = Finally(c, client_rate_limits)
  /\ sent' = NoMsg
  /\ UNCHANGED <<API_KEY, heartbeat_sleep, active_sessions, analysis_semaphore, client_id, jpc, jws, model_name, analysis_result,
                 sleep_left, pushed, since_accept, handshake>>

\* websockets.serve(max_size=MAX_MESSAGE_SIZE), lines 574-583: a frame larger
\* than max_size never reaches the handler; the library fails the connection
\* (close code 1009), recv raises ConnectionClosed and the handler leaves
\* through lines 459-470.
websocket_oversized(c) ==
  /\ hpc[c] \in {"auth", "loop"}
  /\ open[c]
  /\ \E m \in AuthMessages \cup LoopMessages : m.len > MAX_MESSAGE_SIZE
  /\ Ended(c)
  /\ connected_clients' = Finally(c, connected_clients)
  /\ client_rate_limits' = Finally(c, client_rate_limits)
  /\ sent' = NoMsg
  /\ UNCHANGED <<API_KEY, heartbeat_sleep, active_sessions, analysis_semaphore, client_id, jpc, jws, model_name, analysis_result,
                 sleep_left, pushed, since_accept, handshake>>

\* faulty variant: a message exactly one interval after the last is refused too
RateLimited_inclusive(c) ==
  /\ client_id[c] \in DOMAIN client_rate_limits
  /\ client_rate_limits[client_id[c]] <= RATE_LIMIT_INTERVAL

\* the rate limit check, lines 415-417
RateLimited(c) ==
  /\ client_id[c] \in DOMAIN client_rate_limits
  /\ client_rate_limits[client_id[c]] < RATE_LIMIT_INTERVAL

\* handle_message reaches line 216: the message parsed to an object
Routed(m) == m.len <= MAX_MESSAGE_SIZE /\ m.json = "object"

\* faulty variant: a request is taken only while a ticket is free
Analyze_capacity(m) ==
  Routed(m) /\ m.type = "analyze_log" /\ m.log # "" /\ analysis_semaphore > 0

\* faulty variant: the log text is not looked at
Analyze_any(m) == Routed(m) /\ m.type = "analyze_log"

\* an analyze_log request that gets a request id, lines 227-254
Analyze(m) == Routed(m) /\ m.type = "analyze_log" /\ m.log # ""

\* the server_status reply with the counts of lines 266-271
StatusInfo ==
  [to |-> 0, type |-> "server_status", code |-> 0, rid |-> 0,
   clients_connected |-> Cardinality(DOMAIN connected_clients),
   active_sessions |-> Cardinality(DOMAIN active_sessions)]

\* the reply to a message that passed the rate limiter, lines 429-457 and
\* handle_message, lines 213-283
Reply(m, rid) ==
  IF m.len > MAX_MESSAGE_SIZE THEN Error(413)
  ELSE IF m.json = "invalid" THEN ErrorText(400, "Invalid JSON")
  ELSE IF m.json = "nonobj" THEN ErrorText(500, "Server error processing message")
  ELSE IF m.type = "ping" THEN OutMsg("pong", 0, 0)
  ELSE IF m.type = "analyze_log"
       THEN IF m.log = "" THEN ErrorText(400, "No log text provided")
            ELSE OutMsg("request_received", 0, rid)
  ELSE IF m.type = "get_models" THEN OutMsg("models_info", 0, 0)
  ELSE IF m.type = "server_status" THEN StatusInfo
  ELSE ErrorText(400, "Unknown message type")

\* time.time() written to connected_clients[client_id]["last_activity"], lines 216-217
Touch(d, id) == IF id \in DOMAIN d THEN [d EXCEPT ![id].since_activity = 0] ELSE d

\* the loop is left by an exception of send, lines 459-470
Leave(c) ==
  /\ Ended(c)
  /\ connected_clients' = Finally(c, connected_clients)
  /\ client_rate_limits' = Finally(c, client_rate_limits)
  /\ UNCHANGED <<jpc, jws, model_name, pushed>>

\* faulty variant: handle_message awaits the analysis instead of creating a task
Reading_inline(c) ==
  hpc[c] = "loop" /\ \A r \in Jobs : jws[r] = c => jpc[r] \in {"none", "done"}

\* the handler is at "async for message in websocket", line 411: every await
\* of the loop body is a send, and the analysis runs in its own task (252-254)
Reading(c) == hpc[c] = "loop"

\* one iteration of the read loop, lines 411-457
connection_handler_message(c, m) ==
  /\ Reading(c)
  /\ m.len <= MAX_MESSAGE_SIZE          \* the transport hands over no larger frame
  /\ Analyze(m) => NextRequestId <= MaxJobs
  /\ IF RateLimited(c)
     THEN /\ sent' = Send(c, Error(429))
          /\ IF open[c]
             THEN UNCHANGED <<connected_clients, client_rate_limits, hpc, open,
                              jpc, jws, model_name, pushed>>
             ELSE Leave(c)
          /\ UNCHANGED since_accept
     ELSE /\ since_accept' = [since_accept EXCEPT ![c] = 0]
          /\ sent' = Send(c, Reply(m, NextRequestId))
          /\ IF open[c]
             THEN /\ client_rate_limits' = Put(client_rate_limits, client_id[c], 0)
                  /\ connected_clients' =
                       IF Routed(m) THEN Touch(connected_clients, client_id[c])
                       ELSE connected_clients
                  /\ IF Analyze(m)      \* asyncio.create_task, lines 252-254
                     THEN /\ jpc' = [jpc EXCEPT ![NextRequestId] = "wait"]
                          /\ jws' = [jws EXCEPT ![NextRequestId] = c]
                          /\ model_name' = [model_name EXCEPT ![NextRequestId] = m.model]
                          /\ pushed' = Push(sent')
                     ELSE UNCHANGED <<jpc, jws, model_name, pushed>>
                  /\ UNCHANGED <<hpc, open>>
             ELSE Leave(c)
  /\ UNCHANGED <<API_KEY, heartbeat_sleep, active_sessions, analysis_semaphore, client_id,
                 analysis_result, sleep_left, handshake>>

\* ---------------------------------------------------- process_log_analysis
\* the record of lines 301-306; "error" is the key the except block adds
Session(c, st) == [client_id |-> c, since_start |-> 0, status |-> st, error |-> ""]

\* str(e) of the exceptions the task can meet
Raised == "engine error"
ConnectionClosed == "connection closed"
KeyError == "key error"

\* the error message of lines 347-352
JobError(r, e) == [to |-> 0, type |-> "error", code |-> 500, rid |-> r, message |-> e]

\* asyncio.sleep(300) of the finally block begins, lines 362-364
Sleep(r) == /\ jpc' = [jpc EXCEPT ![r] = "sleep"]
            /\ sleep_left' = [sleep_left EXCEPT ![r] = SESSION_KEEP]

\* faulty variant: the except block leaves the record as it is
Failed_unrecorded(d, r, e) == d

\* the except block's update, lines 356-360
Failed(d, r, e) ==
  IF r \in DOMAIN d THEN [d EXCEPT ![r].status = "error", ![r].error = e] ELSE d

\* faulty variant: the semaphore lets every task in
Acquirable_unbounded == TRUE

\* async with analysis_semaphore, line 298: acquire returns once the value is
\* positive
Acquirable == analysis_semaphore > 0

\* faulty variant: leaving the block gives no ticket back
Released_leak == analysis_semaphore

\* leaving the async with block, line 298: release adds one to the value
Released == analysis_semaphore + 1

\* the semaphore is acquired, the session is recorded and the status update
\* is sent, lines 298-314.  If the send raises, the except block's own send
\* raises too and is swallowed (346-354), and the record becomes "error".
Acquire(r, update) ==
  /\ jpc[r] = "wait"
  /\ Acquirable
  /\ analysis_semaphore' = analysis_semaphore - 1
  /\ sent' = Send(jws[r], update)
  /\ IF open[jws[r]]
     THEN /\ active_sessions' = Put(active_sessions, r, Session(jws[r], "processing"))
          /\ pushed' = Push(sent')
          /\ jpc' = [jpc EXCEPT ![r] = "engine"]
          /\ UNCHANGED sleep_left
     ELSE /\ active_sessions' =
               Failed(Put(active_sessions, r, Session(jws[r], "processing")), r,
                      ConnectionClosed)
          /\ Sleep(r)
          /\ UNCHANGED pushed
  /\ UNCHANGED <<API_KEY, heartbeat_sleep, connected_clients, client_rate_limits, hpc, open,
                 client_id, jws, model_name, analysis_result, since_accept, handshake>>

\* faulty variant: the task goes to the engine without the status update
process_log_analysis_acquire_silent(r) == Acquire(r, NoMsg)

\* lines 298-314 with the status update of lines 309-314
process_log_analysis_acquire(r) == Acquire(r, OutMsg("analysis_status", 0, r))

\* run_in_executor(analyze_log) returns or raises, lines 318-328 and 341-360.
\* Line 323 reads active_sessions[request_id] and raises KeyError without it.
Engine(r, ok, text) ==
  /\ jpc[r] = "engine"
  /\ IF ok /\ r \in DOMAIN active_sessions
     THEN /\ active_sessions' = [active_sessions EXCEPT ![r].status = "completed"]
          /\ analysis_result' = [analysis_result EXCEPT ![r] = text]
          /\ jpc' = [jpc EXCEPT ![r] = "send_result"]
          /\ sent' = NoMsg
          /\ UNCHANGED <<pushed, sleep_left>>
     ELSE /\ UNCHANGED analysis_result
          /\ active_sessions' =
               Failed(active_sessions, r, IF ok THEN KeyError ELSE Raised)
          /\ sent' = Send(jws[r], JobError(r, IF ok THEN KeyError ELSE Raised))
          /\ pushed' = Push(sent')
          /\ Sleep(r)
  /\ UNCHANGED <<API_KEY, heartbeat_sleep, connected_clients, client_rate_limits, analysis_semaphore,
                 hpc, open, client_id, jws, model_name, since_accept, handshake>>

\* the engine returns its text, or raises
process_log_analysis_engine(r, ok) == Engine(r, ok, "Disk cleanup needed")

\* faulty variant: the result names the default model
Result_default(r) ==
  [to |-> 0, type |-> "analysis_result", code |-> 0, rid |-> r,
   analysis |-> analysis_result[r], model |-> "gpt4all"]

\* the analysis_result message of lines 331-337
Result(r) ==
  [to |-> 0, type |-> "analysis_result", code |-> 0, rid |-> r,
   analysis |-> analysis_result[r], model |-> model_name[r]]

\* the result is sent, lines 331-339; a send that raises lands in the except
\* block, lines 341-360
process_log_analysis_send_result(r) ==
  /\ jpc[r] = "send_result"
  /\ sent' = Send(jws[r], Result(r))
  /\ pushed' = Push(sent')
  /\ analysis_result' = [analysis_result EXCEPT ![r] = ""]
  /\ active_sessions' = IF open[jws[r]] THEN active_sessions
                        ELSE Failed(active_sessions, r, ConnectionClosed)
  /\ Sleep(r)
  /\ UNCHANGED <<API_KEY, heartbeat_sleep, connected_clients, client_rate_limits, analysis_semaphore,
                 hpc, open, client_id, jws, model_name, since_accept, handshake>>

\* the sleep is over: the record is deleted and the async with block is
\* left, which releases the semaphore, lines 365-366 and 298
process_log_analysis_exit(r) ==
  /\ jpc[r] = "sleep"
  /\ sleep_left[r] = 0
  /\ active_sessions' = Remove(active_sessions, r)
  /\ analysis_semaphore' = Released
  /\ jpc' = [jpc EXCEPT ![r] = "done"]
  /\ jws' = [jws EXCEPT ![r] = 0]           \* the task and its arguments are gone
  /\ model_name' = [model_name EXCEPT ![r] = ""]
  /\ pushed' = [pushed EXCEPT ![r] = {}]
  /\ sent' = NoMsg
  /\ UNCHANGED <<API_KEY, heartbeat_sleep, connected_clients, client_rate_limits, hpc, open,
                 client_id, analysis_result, sleep_left, since_accept, handshake>>

\* --------------------------------------------------------- periodic_cleanup
\* faulty variant: the status of the session is not looked at
Old_any(info) == info.since_start > SESSION_OLD

\* the test of line 534
Old(info) == /\ info.status \in {"completed", "error"}
             /\ info.since_start > SESSION_OLD

\* the test of line 521
Inactive(info) == info.since_activity > CLIENT_INACTIVE

\* one pass of the loop body, lines 516-539
periodic_cleanup ==
  LET inactive_clients == {id \in DOMAIN connected_clients : Inactive(connected_clients[id])}
      old_sessions == {r \in DOMAIN active_sessions : Old(active_sessions[r])}
  IN /\ connected_clients' =
          [id \in DOMAIN connected_clients \ inactive_clients |-> connected_clients[id]]
     /\ client_rate_limits' =
          [id \in DOMAIN client_rate_limits \ inactive_clients |-> client_rate_limits[id]]
     /\ active_sessions' =
          [r \in DOMAIN active_sessions \ old_sessions |-> active_sessions[r]]
     /\ sent' = NoMsg
     /\ UNCHANGED <<API_KEY, heartbeat_sleep, analysis_semaphore, hpc, open, client_id, jpc, jws, model_name, analysis_result,
                    sleep_left, pushed, since_accept, handshake>>

\* --------------------------------------------------------- heartbeat_sender
\* the heartbeats one pass sends, lines 493-497
Heartbeat(clients) ==
  [to |-> 0, type |-> "heartbeat", code |-> 0, rid |-> 0, clients |-> clients]

\* the test of line 487
Idle(info) == info.since_activity > HEARTBEAT_IDLE

\* the test of line 490, on the client_info authenticate_client builds (179-187)
HasWebsocket(info) == "websocket" \in DOMAIN info

\* one pass of the loop body, lines 476-509; a send that raises is caught
\* for its client alone (lines 500-501)
heartbeat_sender ==
  LET reached == {id \in DOMAIN connected_clients :
                    /\ Idle(connected_clients[id])
                    /\ HasWebsocket(connected_clients[id])
                    /\ open[id]}
  IN /\ heartbeat_sleep = 0
     /\ heartbeat_sleep' = HEARTBEAT_PERIOD
     /\ sent' = IF reached = {} THEN NoMsg ELSE Heartbeat(reached)
     /\ UNCHANGED <<API_KEY, connected_clients, client_rate_limits, active_sessions,
                    analysis_semaphore, hpc, open, client_id, jpc, jws, model_name,
                    analysis_result, sleep_left, pushed, since_accept, handshake>>

\* --------------------------------------------------------------------- time
\* one unit of time passes: every stamp is one unit older, every sleep one
\* unit shorter
Tick ==
  /\ connected_clients' =
       [id \in DOMAIN connected_clients |->
          [since_activity |-> Min(connected_clients[id].since_activity + 1, CLIENT_INACTIVE + 1)]]
  /\ client_rate_limits' =
       [id \in DOMAIN client_rate_limits |->
          Min(client_rate_limits[id] + 1, RATE_LIMIT_INTERVAL)]
  /\ active_sessions' =
       [r \in DOMAIN active_sessions |->
          [active_sessions[r] EXCEPT !.since_start = Min(@ + 1, SESSION_OLD + 1)]]
  /\ sleep_left' = [r \in Jobs |-> Max(sleep_left[r] - 1, 0)]
  /\ heartbeat_sleep' = Max(heartbeat_sleep - 1, 0)
  /\ since_accept' =
       [c \in Conns |-> IF since_accept[c] = NoTime THEN NoTime
                        ELSE Min(since_accept[c] + 1, RATE_LIMIT_INTERVAL)]
  /\ sent' = NoMsg
  /\ UNCHANGED <<API_KEY, analysis_semaphore, hpc, open, client_id, jpc, jws,
                 model_name, analysis_result, pushed, handshake>>

\* -------------------------------------------------------------------- Next
\* the whole server with every client input
Next ==
  \/ \E c \in Conns : connect(c)
  \/ \E c \in Conns : peer_close(c)
  \/ \E c \in Conns, m \in AuthMessages : connection_handler_auth(c, m)
  \/ \E c \in Conns : connection_handler_timeout(c)
  \/ \E c \in Conns : connection_handler_closed(c)
  \/ \E c \in Conns : websocket_oversized(c)
  \/ \E c \in Conns, m \in LoopMessages : connection_handler_message(c, m)
  \/ \E r \in Jobs : process_log_analysis_acquire(r)
  \/ \E r \in Jobs, ok \in BOOLEAN : process_log_analysis_engine(r, ok)
  \/ \E r \in Jobs : process_log_analysis_send_result(r)
  \/ \E r \in Jobs : process_log_analysis_exit(r)
  \/ periodic_cleanup
  \/ heartbeat_sender
  \/ Tick

Spec == Init /\ [][Next]_vars

\* The sessions' side of the server: every first message, every message of
\* the read loop that starts no analysis, the cleanup and time.
SessionMessages == {m \in LoopMessages : ~Analyze(m)}

NextConn ==
  \/ \E c \in Conns : connect(c)
  \/ \E c \in Conns : peer_close(c)
  \/ \E c \in Conns, m \in AuthMessages : connection_handler_auth(c, m)
  \/ \E c \in Conns : connection_handler_timeout(c)
  \/ \E c \in Conns : connection_handler_closed(c)
  \/ \E c \in Conns : websocket_oversized(c)
  \/ \E c \in Conns, m \in SessionMessages : connection_handler_message(c, m)
  \/ periodic_cleanup
  \/ heartbeat_sender
  \/ Tick

SpecConn == Init /\ [][NextConn]_vars

\* The analyses' side of the server: clients that authenticate and send
\* analyze_log requests with log text, the analysis tasks, the cleanup and time.
AnalyzeMessages == {m \in LoopMessages : Analyze(m)}
Hello == InMsg("object", "authentication", "key", "", MAX_MESSAGE_SIZE)

NextJobs ==
  \/ \E c \in Conns : connect(c)
  \/ \E c \in Conns : peer_close(c)
  \/ \E c \in Conns : connection_handler_auth(c, Hello)
  \/ \E c \in Conns : connection_handler_closed(c)
  \/ \E c \in Conns, m \in AnalyzeMessages : connection_handler_message(c, m)
  \/ \E r \in Jobs : process_log_analysis_acquire(r)
  \/ \E r \in Jobs, ok \in BOOLEAN : process_log_analysis_engine(r, ok)
  \/ \E r \in Jobs : process_log_analysis_send_result(r)
  \/ \E r \in Jobs : process_log_analysis_exit(r)
  \/ periodic_cleanup
  \/ Tick

InitJobs == Init /\ API_KEY = ""

SpecJobs == InitJobs /\ [][NextJobs]_vars

\* The analyses' side under fair scheduling: the event loop runs every task
\* that is ready, time passes, and every call of the inference engine
\* returns or raises.
FairSpecJobs ==
  /\ SpecJobs
  /\ WF_vars(Tick)
  /\ \A r \in Jobs : /\ WF_vars(process_log_analysis_acquire(r))
                     /\ WF_vars(\E ok \in BOOLEAN : process_log_analysis_engine(r, ok))
                     /\ WF_vars(process_log_analysis_send_result(r))
                     /\ WF_vars(process_log_analysis_exit(r))

\* The server in service: clients that authenticate and send pings and
\* analyze_log requests with or without log text, the analysis tasks, the
\* cleanup and time.
ServeMessages ==
  {m \in LoopMessages : /\ m.json = "object" /\ m.len <= MAX_MESSAGE_SIZE
                        /\ m.type \in {"ping", "analyze_log"}}

NextServe ==
  \/ \E c \in Conns : connect(c)
  \/ \E c \in Conns : peer_close(c)
  \/ \E c \in Conns : connection_handler_auth(c, Hello)
  \/ \E c \in Conns : connection_handler_closed(c)
  \/ \E c \in Conns, m \in ServeMessages : connection_handler_message(c, m)
  \/ \E r \in Jobs : process_log_analysis_acquire(r)
  \/ \E r \in Jobs, ok \in BOOLEAN : process_log_analysis_engine(r, ok)
  \/ \E r \in Jobs : process_log_analysis_send_result(r)
  \/ \E r \in Jobs : process_log_analysis_exit(r)
  \/ periodic_cleanup
  \/ Tick

SpecServe == InitJobs /\ [][NextServe]_vars

Ping == InMsg("object", "ping", "", "", MAX_MESSAGE_SIZE)

\* One request from end to end: clients that authenticate and send
\* analyze_log requests naming a model or not, an inference engine that
\* answers with one of two texts or raises, under the fair scheduling of
\* FairSpecJobs.
Models == {"gpt4all", "mistral"}
Texts == {"Disk cleanup needed", "No issues found"}
RequestMessages ==
  {[InMsg("object", "analyze_log", "", "log", MAX_MESSAGE_SIZE) EXCEPT !.model = x] :
     x \in Models}

NextEndToEnd ==
  \/ \E c \in Conns : connect(c)
  \/ \E c \in Conns : peer_close(c)
  \/ \E c \in Conns : connection_handler_auth(c, Hello)
  \/ \E c \in Conns : connection_handler_closed(c)
  \/ \E c \in Conns, m \in RequestMessages : connection_handler_message(c, m)
  \/ \E r \in Jobs : process_log_analysis_acquire(r)
  \/ \E r \in Jobs, ok \in BOOLEAN, t \in Texts : Engine(r, ok, t)
  \/ \E r \in Jobs : process_log_analysis_send_result(r)
  \/ \E r \in Jobs : process_log_analysis_exit(r)
  \/ periodic_cleanup
  \/ Tick

FairSpecEndToEnd ==
  /\ InitJobs /\ [][NextEndToEnd]_vars
  /\ WF_vars(Tick)
  /\ \A r \in Jobs : /\ WF_vars(process_log_analysis_acquire(r))
                     /\ WF_vars(\E ok \in BOOLEAN, t \in Texts : Engine(r, ok, t))
                     /\ WF_vars(process_log_analysis_send_result(r))
                     /\ WF_vars(process_log_analysis_exit(r))

\* ------------------------------------------------------------------ claims
\* tasks inside the async with block: they hold a ticket of the semaphore
Holders == {r \in Jobs : jpc[r] \in {"engine", "send_result", "sleep"}}
\* records with status "processing"
Running == {r \in DOMAIN active_sessions : active_sessions[r].status = "processing"}

\* C1: at most MAX_CONCURRENT_ANALYSES tasks hold a ticket and at most that
\* many records are "processing" at any time, and a waiting task gets its
\* ticket only in a state where fewer than MAX_CONCURRENT_ANALYSES hold one.
C1_AdmissionBound ==
  /\ [](/\ Cardinality(Holders) <= MAX_CONCURRENT_ANALYSES
        /\ Cardinality(Running) <= MAX_CONCURRENT_ANALYSES
        /\ analysis_semaphore >= 0)
  /\ [][\A r \in Jobs :
          (jpc[r] = "wait" /\ jpc'[r] # "wait")
            => Cardinality(Holders) < MAX_CONCURRENT_ANALYSES]_vars

C1_Witness ==
  /\ Cardinality(Holders) = MAX_CONCURRENT_ANALYSES
  /\ \E r \in Jobs : jpc[r] = "wait"
  /\ \E r \in Jobs : jpc[r] = "engine"

\* C2: under fair scheduling a waiting task gets a ticket, every task that
\* holds a ticket leaves the block, whether the engine returned, raised or
\* the connection was closed, and when no task is left all
\* MAX_CONCURRENT_ANALYSES tickets are free again.
C2_TicketReleased ==
  /\ \A r \in Jobs : (jpc[r] = "wait") ~> (r \in Holders)
  /\ \A r \in Jobs : (r \in Holders) ~> (jpc[r] = "done")
  /\ []((\A r \in Jobs : jpc[r] \in {"none", "done"})
          => analysis_semaphore = MAX_CONCURRENT_ANALYSES)

C2_Witness ==
  \E r1, r2 \in Jobs :
    /\ jpc[r1] = "done"
    /\ jpc[r2] = "sleep"
    /\ r2 \in DOMAIN active_sessions
    /\ active_sessions[r2].status = "error"
    /\ "error" \in pushed[r2]

\* C3: a record's status never moves backward and never changes once it is
\* "completed" or "error".
C3_StatusForward ==
  [][\A r \in DOMAIN active_sessions \cap DOMAIN active_sessions' :
        \/ active_sessions'[r].status = active_sessions[r].status
        \/ /\ active_sessions[r].status = "processing"
           /\ active_sessions'[r].status \in {"completed", "error"}]_vars

\* the read loop of connection c takes a message in this step
Reads(c) == \E m \in LoopMessages : connection_handler_message(c, m)

\* C4: two messages the rate limiter lets through on one connection are at
\* least RATE_LIMIT_INTERVAL apart, and a refused message (429) leaves the
\* rate-limit entries as they were.
C4_AcceptedApart ==
  [][\A c \in Conns :
       (Reads(c) /\ sent'.to = c)
         => IF sent'.code = 429
            THEN client_rate_limits' = client_rate_limits
            ELSE since_accept[c] = NoTime \/ since_accept[c] >= RATE_LIMIT_INTERVAL]_vars

\* request ids handed out to requests of connection c whose task is alive
JobsOf(c) == {r \in Jobs : jws[r] = c}

\* C5: on an open connection an analyze_log message with log text gets a
\* request id, a request_received and a task when it is the first message of
\* the session or comes at least RATE_LIMIT_INTERVAL after the last accepted
\* one; when it comes sooner it gets the error 429 and no task.
C5_AnalyzeRateLimit ==
  [][\A c \in Conns :
       (open[c] /\ \E m \in AnalyzeMessages : connection_handler_message(c, m))
         => IF since_accept[c] = NoTime \/ since_accept[c] >= RATE_LIMIT_INTERVAL
            THEN /\ sent' = [to |-> c, type |-> "request_received", code |-> 0,
                             rid |-> NextRequestId]
                 /\ jpc[NextRequestId] = "none"
                 /\ jpc' = [jpc EXCEPT ![NextRequestId] = "wait"]
                 /\ jws'[NextRequestId] = c
            ELSE /\ sent' = [to |-> c, type |-> "error", code |-> 429, rid |-> 0]
                 /\ jpc' = jpc]_vars

C5_Witness ==
  /\ sent.type = "error" /\ sent.code = 429
  /\ Cardinality(JobsOf(sent.to)) = 1
  /\ since_accept[sent.to] = 0

\* C6: for every request id the request_received goes out before the
\* analysis_status, and both go out before the analysis_result or the error
\* of that request; a task exists only for an acknowledged request.
C6_PushOrder ==
  /\ [](\A r \in Jobs : jpc[r] \notin {"none", "done"} => "request_received" \in pushed[r])
  /\ [][\A r \in Jobs :
          /\ ("analysis_status" \in pushed'[r] /\ "analysis_status" \notin pushed[r])
               => "request_received" \in pushed[r]
          /\ (\E t \in {"analysis_result", "error"} : t \in pushed'[r] /\ t \notin pushed[r])
               => {"request_received", "analysis_status"} \subseteq pushed[r]]_vars

C6_Witness ==
  \E r \in Jobs : pushed[r] = {"request_received", "analysis_status", "analysis_result"}

C8_Handshake ==
  /\ [](\A c \in Conns :
          (\/ c \in DOMAIN connected_clients
           \/ c \in DOMAIN client_rate_limits
           \/ hpc[c] = "loop"
           \/ since_accept[c] # NoTime) => handshake[c] = "passed")
  /\ [](\A c \in Conns : handshake[c] \notin {"pending", "passed"} => hpc[c] = "done")
  /\ [][\A c \in Conns :
          /\ (handshake[c] = "pending" /\ handshake'[c] = "passed")
               => /\ c \in DOMAIN connected_clients'
                  /\ (open[c] => /\ hpc'[c] = "loop"
                                 /\ sent' = [to |-> c, type |-> "authentication",
                                             code |-> 0, rid |-> 0])
          /\ (handshake[c] = "pending" /\ handshake'[c] = "unauthorized" /\ open[c])
               => sent' = [to |-> c, type |-> "error", code |-> 401, rid |-> 0]
          /\ hpc[c] = "done" => hpc'[c] = "done"]_vars

C8_Witness ==
  /\ API_KEY # ""
  /\ sent.type = "error" /\ sent.code = 401
  /\ handshake[sent.to] = "unauthorized"
  /\ hpc[sent.to] = "done"

\* C9: a message larger than MAX_MESSAGE_SIZE sent to a read loop gets the
\* error 413, the loop goes on and the session stays registered.
C9_Oversized ==
  [][\A c \in Conns :
       (hpc[c] = "loop" /\ websocket_oversized(c))
         => /\ sent' = [to |-> c, type |-> "error", code |-> 413, rid |-> 0]
            /\ hpc'[c] = "loop"
            /\ connected_clients' = connected_clients]_vars

\* C10: once a connection handler has ended, the session registered for its
\* connection and its rate-limit entry are gone.
C10_NoSessionAfterHandler ==
  \A c \in Conns :
    hpc[c] = "done" => c \notin DOMAIN connected_clients /\ c \notin DOMAIN client_rate_limits

\* C11: when the inference engine raises for a running job, the job's record
\* becomes "error" with the exception's text, an error 500 with the job's id
\* and that text goes to the job's connection if it is open, no connection
\* handler ends and no other job or record changes.
C11_EngineFailure ==
  [][\A r \in Jobs :
       process_log_analysis_engine(r, FALSE)
         => /\ r \in DOMAIN active_sessions
            /\ active_sessions[r].status = "processing"
            /\ active_sessions'[r].status = "error"
            /\ active_sessions'[r].error = Raised
            /\ open[jws[r]] => sent' = [to |-> jws[r], type |-> "error", code |-> 500,
                                        rid |-> r, message |-> Raised]
            /\ hpc' = hpc /\ open' = open /\ connected_clients' = connected_clients
            /\ \A q \in Jobs \ {r} :
                 /\ jpc'[q] = jpc[q]
                 /\ q \in DOMAIN active_sessions
                      => q \in DOMAIN active_sessions'
                         /\ active_sessions'[q] = active_sessions[q]]_vars

C11_Witness ==
  /\ sent.type = "error" /\ sent.code = 500 /\ sent.rid \in DOMAIN active_sessions
  /\ sent.message = Raised
  /\ active_sessions[sent.rid].error = Raised
  /\ hpc[sent.to] = "loop"
  /\ \E q \in Jobs \ {sent.rid} : jpc[q] = "wait"

\* C12: an analyze_log message without log text that passes the rate limiter
\* is answered with the error 400 in the same step, and the step creates
\* nothing: no task, no request id, no request_received, no record, and the
\* semaphore is not touched.
C12_EmptyLog ==
  [][\A c \in Conns :
       (/\ open[c] /\ ~RateLimited(c)
        /\ \E m \in LoopMessages : /\ m.json = "object" /\ m.type = "analyze_log"
                                   /\ m.log = ""
                                   /\ connection_handler_message(c, m))
         => /\ sent' = [to |-> c, type |-> "error", code |-> 400, rid |-> 0,
                        message |-> "No log text provided"]
            /\ jpc' = jpc /\ jws' = jws /\ pushed' = pushed
            /\ active_sessions' = active_sessions
            /\ analysis_semaphore' = analysis_semaphore
            /\ NextRequestId' = NextRequestId]_vars

C12_Witness ==
  /\ sent.type = "error" /\ sent.code = 400
  /\ "message" \in DOMAIN sent /\ sent.message = "No log text provided"
  /\ hpc[sent.to] = "loop"
  /\ \E r \in Jobs : jpc[r] = "wait"
  /\ \E r \in Jobs : jpc[r] = "none"

\* C13: a task whose connection was closed still goes from the wait for a
\* ticket to the call of the inference engine, and when the engine returned a
\* result the record stays "completed" after the result could not be sent.
C13_CloseDoesNotAbort ==
  /\ [][\A r \in Jobs : (jpc[r] = "wait" /\ jpc'[r] # "wait") => jpc'[r] = "engine"]_vars
  /\ [][\A r \in Jobs :
          (jpc[r] = "send_result" /\ jpc'[r] = "sleep")
            => r \in DOMAIN active_sessions' /\ active_sessions'[r].status = "completed"]_vars

\* C14: an analyze_log request with log text that passes the rate limiter
\* while every ticket is held gets its request_received in that step and a
\* task that waits; a waiting task has been sent nothing but the
\* request_received, and it leaves the wait only by getting a ticket.
C14_NoCapacityReject ==
  /\ [][\A c \in Conns :
          (/\ open[c] /\ ~RateLimited(c) /\ analysis_semaphore = 0
           /\ \E m \in LoopMessages : /\ m.json = "object" /\ m.type = "analyze_log"
                                      /\ m.log # ""
                                      /\ connection_handler_message(c, m))
            => /\ sent' = [to |-> c, type |-> "request_received", code |-> 0,
                           rid |-> NextRequestId]
               /\ jpc[NextRequestId] = "none" /\ jpc'[NextRequestId] = "wait"
               /\ analysis_semaphore' = 0]_vars
  /\ [](\A r \in Jobs : jpc[r] = "wait" => pushed[r] = {"request_received"})
  /\ [][\A r \in Jobs : (jpc[r] = "wait" /\ jpc'[r] # "wait")
          => analysis_semaphore' = analysis_semaphore - 1]_vars

C14_Witness ==
  /\ sent.type = "request_received" /\ sent.rid \in Jobs
  /\ jpc[sent.rid] = "wait"
  /\ analysis_semaphore = 0
  /\ \E q \in Jobs : jpc[q] = "engine"

\* tasks that wait for a ticket or for the inference engine
Pending == {r \in Jobs : jpc[r] \in {"wait", "engine"}}

C16_KeptForRetention ==
  [][\A r \in DOMAIN active_sessions :
       (/\ active_sessions[r].status \in {"completed", "error"}
        /\ r \notin DOMAIN active_sessions')
         => sleep_left[r] = 0]_vars

Undeliverable(r) ==
  \/ jws[r] \in Conns /\ ~open[jws[r]]
  \/ r \in DOMAIN active_sessions /\ active_sessions[r].status = "error"

\* C18: a handler enters its read loop by sending the authentication
\* success; a request_received goes to a connection in its read loop and is
\* the first message of its request id; the analysis_result goes out after
\* the request_received and the analysis_status of the same id and carries
\* the text the engine returned and the model name of the request; and every
\* acknowledged request whose connection stays open and whose engine call
\* returns a result gets its analysis_result.
C18_EndToEnd ==
  /\ [][\A c \in Conns :
          (hpc[c] = "auth" /\ hpc'[c] = "loop")
            => sent' = [to |-> c, type |-> "authentication", code |-> 0, rid |-> 0]]_vars
  /\ [][\A c \in Conns, m \in RequestMessages :
          (open[c] /\ ~RateLimited(c) /\ connection_handler_message(c, m))
            => /\ sent'.type = "request_received" /\ sent'.to = c
               /\ pushed'[sent'.rid] = {"request_received"}
               /\ model_name'[sent'.rid] = m.model]_vars
  /\ [][\A r \in Jobs, t \in Texts : Engine(r, TRUE, t) => analysis_result'[r] = t]_vars
  /\ [][\A r \in Jobs :
          (process_log_analysis_send_result(r) /\ open[jws[r]])
            => /\ sent' = [to |-> jws[r], type |-> "analysis_result", code |-> 0,
                           rid |-> r, analysis |-> analysis_result[r],
                           model |-> model_name[r]]
               /\ pushed[r] = {"request_received", "analysis_status"}]_vars
  /\ \A r \in Jobs :
       (jpc[r] = "wait") ~> ("analysis_result" \in pushed[r] \/ Undeliverable(r))

C18_Witness ==
  /\ sent.type = "analysis_result"
  /\ sent.model = "mistral" /\ sent.analysis = "No issues found"
  /\ pushed[sent.rid] = {"request_received", "analysis_status", "analysis_result"}
  /\ hpc[sent.to] = "loop" /\ open[sent.to]

\* C19: on an open connection that has not authenticated, the timeout of the
\* wait for the first message sends the error 408, and a first message that
\* is not a JSON object sends the error 400; either way the handler ends
\* there and no session is registered.
C19_PreAuthErrors ==
  [][\A c \in Conns :
       (hpc[c] = "auth" /\ open[c])
         => /\ connection_handler_timeout(c)
                 => /\ sent' = [to |-> c, type |-> "error", code |-> 408, rid |-> 0]
                    /\ hpc'[c] = "done"
                    /\ c \notin DOMAIN connected_clients'
            /\ \A m \in AuthMessages :
                 (m.json # "object" /\ connection_handler_auth(c, m))
                   => /\ sent' = [to |-> c, type |-> "error", code |-> 400, rid |-> 0]
                      /\ hpc'[c] = "done"
                      /\ c \notin DOMAIN connected_clients']_vars

\* C20: in the read loop of an open connection, a message that is not a JSON
\* object or whose type is unknown, and that passes the rate limiter, is
\* answered with the error 400; the handler stays in its loop, the
\* connection stays open and the registered sessions stay as they are.
C20_MalformedGets400 ==
  [][\A c \in Conns, m \in LoopMessages :
       (/\ open[c] /\ ~RateLimited(c)
        /\ m.json # "object" \/ m.type = "bogus"
        /\ connection_handler_message(c, m))
         => /\ sent'.to = c /\ sent'.type = "error" /\ sent'.code = 400
            /\ hpc'[c] = "loop" /\ open'[c]
            /\ DOMAIN connected_clients' = DOMAIN connected_clients]_vars

\* C21: a server_status reply carries the number of requests that are
\* accepted and not yet "completed" or "error" (waiting for a ticket or for
\* the engine) and the number of registered sessions.
C21_StatusCounts ==
  [][sent'.type = "server_status"
       => /\ sent'.active_sessions = Cardinality(Pending)
          /\ sent'.clients_connected = Cardinality(DOMAIN connected_clients)]_vars

\* C22: a task holds a ticket only while its record is "processing": no task
\* whose record is "completed" or "error" is inside the async with block.
C22_TicketOnlyWhileRunning ==
  \A r \in Holders :
    r \in DOMAIN active_sessions => active_sessions[r].status = "processing"

\* C23: every acknowledged request that waits for a ticket has a record with
\* status "queued".
C23_QueuedRecord ==
  \A r \in Jobs :
    (jpc[r] = "wait" /\ "request_received" \in pushed[r])
      => r \in DOMAIN active_sessions /\ active_sessions[r].status = "queued"

\* C24: a pass of heartbeat_sender sends a heartbeat to every registered
\* session that has been idle for more than HEARTBEAT_IDLE and whose
\* connection is open.
C24_Heartbeat ==
  [][heartbeat_sender
       => \A id \in DOMAIN connected_clients :
            (connected_clients[id].since_activity > HEARTBEAT_IDLE /\ open[id])
              => sent'.type = "heartbeat" /\ id \in sent'.clients]_vars

\* C25: a message the rate limiter lets through on an open connection of a
\* registered session sets the session's last activity to now, whatever the
\* message is; a message it refuses leaves the sessions as they are.
C25_ActivityOnAccept ==
  [][\A c \in Conns :
       (Reads(c) /\ open[c] /\ c \in DOMAIN connected_clients)
         => IF RateLimited(c)
            THEN connected_clients' = connected_clients
            ELSE /\ c \in DOMAIN connected_clients'
                 /\ connected_clients'[c].since_activity = 0]_vars

\* C26: an oversized message that arrives in the read loop less than
\* RATE_LIMIT_INTERVAL after the last accepted message is answered with the
\* error 413.
C26_SizeBeforeRate ==
  [][\A c \in Conns :
       (hpc[c] = "loop" /\ RateLimited(c) /\ websocket_oversized(c))
         => sent' = [to |-> c, type |-> "error", code |-> 413, rid |-> 0]]_vars

\* C27: a message read on the connection of a session that is no longer
\* registered gets no pong, models_info, server_status or request_received,
\* and makes no rate-limit entry for it.
C27_EvictedNotRouted ==
  [][\A c \in Conns :
       (Reads(c) /\ c \notin DOMAIN connected_clients)
         => /\ sent'.type \notin {"pong", "models_info", "server_status", "request_received"}
            /\ c \notin DOMAIN client_rate_limits => c \notin DOMAIN client_rate_limits']_vars

\* C28: a message that passes the rate limiter and is then refused as invalid
\* JSON, as an unknown type or as an analyze_log without log text leaves the
\* rate-limit entries as they were.
C28_RejectKeepsRateState ==
  [][\A c \in Conns, m \in LoopMessages :
       (/\ open[c] /\ ~RateLimited(c)
        /\ \/ m.json = "invalid"
           \/ m.json = "object" /\ m.type = "bogus"
           \/ m.json = "object" /\ m.type = "analyze_log" /\ m.log = ""
        /\ connection_handler_message(c, m))
         => client_rate_limits' = client_rate_limits]_vars

\* C29: a task that waits for the inference engine has its record, with
\* status "processing"; no step removes a "processing" record; and when the
\* engine returns a result the record is there and becomes "completed".
C29_RunningRecordPresent ==
  /\ [](\A r \in Jobs :
          jpc[r] = "engine"
            => r \in DOMAIN active_sessions /\ active_sessions[r].status = "processing")
  /\ [][\A r \in DOMAIN active_sessions :
          active_sessions[r].status = "processing" => r \in DOMAIN active_sessions']_vars
  /\ [][\A r \in Jobs :
          process_log_analysis_engine(r, TRUE)
            => r \in DOMAIN active_sessions' /\ active_sessions'[r].status = "completed"]_vars

C29_Witness ==
  \E r \in Jobs :
    /\ jpc[r] = "send_result"
    /\ r \in DOMAIN active_sessions
    /\ active_sessions[r].status = "completed"
    /\ active_sessions[r].since_start > SESSION_OLD

\* C30: under fair scheduling, with an engine that always returns or raises,
\* every acknowledged request that waits for a ticket gets to a record with
\* status "completed" or "error", whether its connection is open or closed.
C30_EveryJobEnds ==
  \A r \in Jobs :
    (jpc[r] = "wait" /\ "request_received" \in pushed[r])
      ~> (r \in DOMAIN active_sessions
          /\ active_sessions[r].status \in {"completed", "error"})

C30_Witness ==
  \E r \in Jobs :
    /\ r \in DOMAIN active_sessions
    /\ active_sessions[r].status = "error"
    /\ active_sessions[r].error = ConnectionClosed
    /\ "analysis_status" \notin pushed[r]
    /\ \E q \in Jobs \ {r} : jpc[q] = "done"
====
